---- MODULE Spec2Model ----
(***************************************************************************)
(* A model of the alpaca command line client (src/index.js).               *)
(*                                                                         *)
(* One process run is: Main (parse, validate, start the handler), then the *)
(* replies of the brokerage the handler awaits, then Exit.  Only the       *)
(* configuration store `config` survives from one run to the next.         *)
(*                                                                         *)
(* JavaScript values are records [type, num, str]; a raw command line      *)
(* token is a sequence of characters, so that "numeric-looking" and the    *)
(* conversion to a number are computed from the characters.  A message     *)
(* (what console.log / console.error receives) is a sequence of lines and  *)
(* a line is a sequence of string parts.                                   *)
(***************************************************************************)
EXTENDS Integers, Sequences, FiniteSets, TLC

VARIABLES
    config,      \* the Conf store: keyId, secretKey, mode, baseUrl
    pc,          \* where the run is: idle, createOrder, getBars, getPositions, done
    command,     \* process.argv[2] of the run
    argv,        \* the rest of process.argv, as given
    parsedArgs,  \* what parseArgs returned
    invoked,     \* the handler action.fn that was called, "none" before the call
    alpaca,      \* the client getAlpaca built
    calls,       \* the brokerage operations called, in order
    order,       \* what createOrder resolved to
    stdout,      \* messages given to console.log
    stderr       \* messages given to console.error

vars == <<config, pc, command, argv, parsedArgs, invoked, alpaca, calls, order, stdout, stderr>>

----------------------------------------------------------------------------
(* Bounds *)

\* longest list of positional tokens of an invocation
MaxPositional == 2

\* most positions the brokerage reports
MaxPositions == 1

----------------------------------------------------------------------------
(* JavaScript values *)

Undefined == [type |-> "undefined", num |-> 0, str |-> ""]
Num(n) == [type |-> "number", num |-> n, str |-> ""]
Str(s) == [type |-> "string", num |-> 0, str |-> s]

\* ToBoolean: undefined, 0 and '' are falsy
Truthy(v) ==
    \/ v.type = "number" /\ v.num # 0
    \/ v.type = "string" /\ v.str # ""

\* template-literal / string concatenation rendering of a value
Render(v) ==
    CASE v.type = "number" -> ToString(v.num)
      [] v.type = "string" -> v.str
      [] OTHER -> "undefined"

\* the characters of a token as one string
RECURSIVE Text(_)
Text(tok) == IF tok = <<>> THEN "" ELSE Head(tok) \o Text(Tail(tok))

Digits == {"0", "1", "2", "3", "4", "5", "6", "7", "8", "9"}

DigitValue(c) ==
    CASE c = "0" -> 0 [] c = "1" -> 1 [] c = "2" -> 2 [] c = "3" -> 3
      [] c = "4" -> 4 [] c = "5" -> 5 [] c = "6" -> 6 [] c = "7" -> 7
      [] c = "8" -> 8 [] c = "9" -> 9

\* minimist's isNumber, on tokens without sign, point, exponent or 0x prefix:
\* /^\d+$/
isNumber(tok) == tok # <<>> /\ \A i \in 1..Len(tok) : tok[i] \in Digits

\* Number(tok) for a token of decimal digits
RECURSIVE Number(_)
Number(tok) ==
    IF tok = <<>> THEN 0
    ELSE 10 * Number(SubSeq(tok, 1, Len(tok) - 1)) + DigitValue(tok[Len(tok)])

\* minimist turns a numeric-looking token into a number, unless the key is
\* declared a string
Coerce(tok) == IF isNumber(tok) THEN Num(Number(tok)) ELSE Str(Text(tok))

----------------------------------------------------------------------------
(* Usage and help texts *)

BUY_USAGE == "alpaca buy [quantity] <symbol> [--type] [--time-in-force] [--limit-price] [--stop-price]"
SELL_USAGE == "alpaca sell [quantity] <symbol> [--type] [--time-in-force] [--limit-price] [--stop-price]"
REPORT_USAGE == "alpaca report"
CONFIGURE_USAGE == "alpaca configure [--id=<key-id>] [--secret=<secret-key>] [--mode=<paper|live>]"
HELP == "Usage: alpaca <command>"

HELP_DETAILS ==
    [configure |-> <<CONFIGURE_USAGE>>,
     buy |-> <<BUY_USAGE, "Buys a stock">>,
     sell |-> <<SELL_USAGE, "Sells a stock">>,
     report |-> <<REPORT_USAGE>>,
     help |-> <<HELP>>]

\* property names every object literal inherits from Object.prototype
ObjectPrototypeKeys ==
    {"constructor", "toString", "toLocaleString", "valueOf", "hasOwnProperty",
     "isPrototypeOf", "propertyIsEnumerable", "__proto__"}

----------------------------------------------------------------------------
(* Option declarations (minimist-options) and the parser (minimist) *)

NoDefaults == [k \in {} |-> Undefined]

\* what parseArgs uses when action.options is undefined
NoOptions == [string |-> {}, default |-> NoDefaults]

orderOptions ==
    [string |-> {"type", "time-in-force", "client-order-id"},
     default |-> [k \in {"type", "time-in-force"} |->
                    IF k = "type" THEN Str("market") ELSE Str("gtc")]]

configureOptions ==
    [string |-> {"id", "secret", "mode", "base-url"}, default |-> NoDefaults]

\* Each option is given at most once and in the form --name=value.
\* tokens is [positional |-> the tokens, flags |-> name -> token of each
\* --name=value given]; the result has the values of _ under positional and the
\* named options under named
parseArgs(tokens, options) ==
    [positional |-> [i \in 1..Len(tokens.positional) |-> Coerce(tokens.positional[i])],
     named |-> [k \in (DOMAIN tokens.flags) \cup (DOMAIN options.default) |->
                  IF k \in DOMAIN tokens.flags
                  THEN IF k \in options.string
                       THEN Str(Text(tokens.flags[k]))
                       ELSE Coerce(tokens.flags[k])
                  ELSE options.default[k]]]

----------------------------------------------------------------------------
(* Validation schemas (joi) and assertSchema *)

Rule(key, kind, allowed, required) ==
    [key |-> key, kind |-> kind, allowed |-> allowed, required |-> required]

orderSchema ==
    << Rule("type", "only", {"market", "limit", "stop", "stop_limit"}, TRUE),
       Rule("time-in-force", "only", {"day", "gtc", "opg", "ioc"}, TRUE),
       Rule("limit-price", "number", {}, FALSE),
       Rule("stop-price", "number", {}, FALSE),
       Rule("client-order-id", "string", {}, FALSE) >>

configureSchema ==
    << Rule("id", "string", {}, FALSE),
       Rule("secret", "string", {}, FALSE),
       Rule("mode", "only", {"paper", "live"}, FALSE),
       Rule("base-url", "string", {}, FALSE) >>

NoSchema == <<>>

\* the order in which keys outside the schema are reported
KeyOrder ==
    <<"id", "secret", "mode", "base-url", "type", "time-in-force",
      "limit-price", "stop-price", "client-order-id">>

\* the reason joi gives for a key, "" when the key passes its rule.  The rule
\* of _ (joi.any().optional()) passes whatever the positionals are.  A string
\* left by the parser is not numeric-looking, so joi.number() cannot convert
\* it.
RuleError(rule, named) ==
    IF rule.key \notin DOMAIN named
    THEN IF rule.required THEN "is required" ELSE ""
    ELSE LET v == named[rule.key] IN
         CASE rule.kind = "only" ->
                IF v.type = "string" /\ v.str \in rule.allowed
                THEN "" ELSE "must be one of the allowed values"
           [] rule.kind = "number" ->
                IF v.type = "number" THEN "" ELSE "must be a number"
           [] rule.kind = "string" ->
                IF v.type # "string" THEN "must be a string"
                ELSE IF v.str = "" THEN "is not allowed to be empty" ELSE ""
           [] OTHER -> ""

DetailLine(key, reason) == <<"\"", key, "\" ", reason>>

RECURSIVE SchemaDetails(_, _)
SchemaDetails(schema, named) ==
    IF schema = <<>> THEN <<>>
    ELSE LET reason == RuleError(Head(schema), named)
             rest == SchemaDetails(Tail(schema), named)
         IN IF reason = "" THEN rest
            ELSE <<DetailLine(Head(schema).key, reason)>> \o rest

RECURSIVE UnknownDetails(_, _, _)
UnknownDetails(keys, schema, named) ==
    IF keys = <<>> THEN <<>>
    ELSE LET known == {schema[i].key : i \in 1..Len(schema)}
             rest == UnknownDetails(Tail(keys), schema, named)
         IN IF Head(keys) \in DOMAIN named /\ Head(keys) \notin known
            THEN <<DetailLine(Head(keys), "is not allowed")>> \o rest
            ELSE rest

\* joi.validate(value, schema, {abortEarly}).error.details, <<>> when valid
joiValidate(value, schema, abortEarly) ==
    LET all == SchemaDetails(schema, value.named)
                 \o UnknownDetails(KeyOrder, schema, value.named)
    IN IF abortEarly /\ all # <<>> THEN <<Head(all)>> ELSE all

\* assertSchema with joi's default abortEarly: true
assertSchema_AbortEarly(value, schema) == joiValidate(value, schema, TRUE)

\* the message assertSchema throws, <<>> when it returns
assertSchema(value, schema) == joiValidate(value, schema, FALSE)

----------------------------------------------------------------------------
(* The configuration store and the brokerage client *)

ConfigKeys == {"keyId", "secretKey", "mode", "baseUrl"}

NoClient ==
    [keyId |-> Undefined, secretKey |-> Undefined, paper |-> FALSE,
     baseUrl |-> Undefined]

ConfigMissingMessage ==
    << <<"No alpaca configuration found.">>,
       <<"See 'alpaca help configure' for more information.">> >>

\* getAlpaca with the check of secretKey left out
getAlpaca_KeyIdOnly(cfg) ==
    IF ~Truthy(cfg.keyId)
    THEN [threw |-> TRUE, client |-> NoClient]
    ELSE [threw |-> FALSE,
          client |-> [keyId |-> cfg.keyId, secretKey |-> cfg.secretKey,
                      paper |-> (cfg.mode = Str("paper")),
                      baseUrl |-> cfg.baseUrl]]

\* getAlpaca: throws when a credential is missing, else builds the client
getAlpaca(cfg) ==
    IF ~Truthy(cfg.keyId) \/ ~Truthy(cfg.secretKey)
    THEN [threw |-> TRUE, client |-> NoClient]
    ELSE [threw |-> FALSE,
          client |-> [keyId |-> cfg.keyId, secretKey |-> cfg.secretKey,
                      paper |-> (cfg.mode = Str("paper")),
                      baseUrl |-> cfg.baseUrl]]

\* args[key], undefined when the key is absent
Get(named, key) == IF key \in DOMAIN named THEN named[key] ELSE Undefined

----------------------------------------------------------------------------
(* Handlers.  The synchronous part of a handler gives the run's next state *)
(* as a record; a throw ends the run with the message on stderr.           *)

Threw(cfg, client, message) ==
    [config |-> cfg, pc |-> "done", alpaca |-> client, calls |-> <<>>,
     stdout |-> <<>>, stderr |-> <<message>>]

Printed(cfg, message) ==
    [config |-> cfg, pc |-> "done", alpaca |-> NoClient, calls |-> <<>>,
     stdout |-> <<message>>, stderr |-> <<>>]

Awaiting(cfg, client, op, params) ==
    [config |-> cfg, pc |-> op, alpaca |-> client,
     calls |-> <<[op |-> op, params |-> params]>>,
     stdout |-> <<>>, stderr |-> <<>>]

\* the disambiguation with the default quantity left out: qty keeps the token
resolvePositional_NoDefaultQty(positional) ==
    LET qty == IF Len(positional) >= 1 THEN positional[1] ELSE Undefined
        symbol == IF Len(positional) >= 2 THEN positional[2] ELSE Undefined
    IN IF ~Truthy(symbol) /\ qty.type = "string"
       THEN [threw |-> FALSE, qty |-> qty, symbol |-> qty]
       ELSE IF ~Truthy(qty) \/ ~Truthy(symbol)
       THEN [threw |-> TRUE, qty |-> qty, symbol |-> symbol]
       ELSE [threw |-> FALSE, qty |-> qty, symbol |-> symbol]

\* the disambiguation without the typeof qty === 'string' test
resolvePositional_NoTypeof(positional) ==
    LET qty == IF Len(positional) >= 1 THEN positional[1] ELSE Undefined
        symbol == IF Len(positional) >= 2 THEN positional[2] ELSE Undefined
    IN IF ~Truthy(symbol)
       THEN [threw |-> FALSE, qty |-> Num(1), symbol |-> qty]
       ELSE IF ~Truthy(qty) \/ ~Truthy(symbol)
       THEN [threw |-> TRUE, qty |-> qty, symbol |-> symbol]
       ELSE [threw |-> FALSE, qty |-> qty, symbol |-> symbol]

\* let [qty, symbol] = _ and the disambiguation that follows
resolvePositional(positional) ==
    LET qty == IF Len(positional) >= 1 THEN positional[1] ELSE Undefined
        symbol == IF Len(positional) >= 2 THEN positional[2] ELSE Undefined
    IN IF ~Truthy(symbol) /\ qty.type = "string"
       THEN [threw |-> FALSE, qty |-> Num(1), symbol |-> qty]
       ELSE IF ~Truthy(qty) \/ ~Truthy(symbol)
       THEN [threw |-> TRUE, qty |-> qty, symbol |-> symbol]
       ELSE [threw |-> FALSE, qty |-> qty, symbol |-> symbol]

UsageMessage(usage) == << <<"Usage: ", usage>> >>

\* order(side, usage) up to its first await
orderStart(side, usage, cfg, args) ==
    LET got == getAlpaca(cfg)
        res == resolvePositional(args.positional)
    IN IF got.threw THEN Threw(cfg, NoClient, ConfigMissingMessage)
       ELSE IF res.threw THEN Threw(cfg, got.client, UsageMessage(usage))
       ELSE Awaiting(cfg, got.client, "createOrder",
                [symbol |-> res.symbol, qty |-> res.qty, side |-> side,
                 type |-> Get(args.named, "type"),
                 time_in_force |-> Get(args.named, "time-in-force"),
                 limit_price |-> Get(args.named, "limit-price"),
                 stop_price |-> Get(args.named, "stop-price"),
                 client_order_id |-> Get(args.named, "client-order-id")])

\* report up to its first await
reportStart(cfg) ==
    LET got == getAlpaca(cfg)
    IN IF got.threw THEN Threw(cfg, NoClient, ConfigMissingMessage)
       ELSE Awaiting(cfg, got.client, "getPositions", <<>>)

\* the config.set calls with the secret written under keyId
configureSets_SecretAsKeyId(cfg, named) ==
    [keyId |-> IF Truthy(Get(named, "secret")) THEN named["secret"]
               ELSE IF Truthy(Get(named, "id")) THEN named["id"] ELSE cfg.keyId,
     secretKey |-> cfg.secretKey,
     mode |-> IF Truthy(Get(named, "mode")) THEN named["mode"] ELSE cfg.mode,
     baseUrl |-> IF Truthy(Get(named, "base-url")) THEN named["base-url"]
                 ELSE cfg.baseUrl]

\* the config.set calls of configure
configureSets(cfg, named) ==
    [keyId |-> IF Truthy(Get(named, "id")) THEN named["id"] ELSE cfg.keyId,
     secretKey |-> IF Truthy(Get(named, "secret")) THEN named["secret"]
                   ELSE cfg.secretKey,
     mode |-> IF Truthy(Get(named, "mode")) THEN named["mode"] ELSE cfg.mode,
     baseUrl |-> IF Truthy(Get(named, "base-url")) THEN named["base-url"]
                 ELSE cfg.baseUrl]

\* Array.prototype.join
RECURSIVE Join(_, _)
Join(parts, sep) ==
    IF Len(parts) <= 1 THEN parts
    ELSE <<Head(parts), sep>> \o Join(Tail(parts), sep)

configure(cfg, args) ==
    LET present(k) == k \in DOMAIN args.named
    IN Printed(configureSets(cfg, args.named),
               << <<"configured ">> \o Join(SelectSeq(KeyOrder, present), ", ") >>)

help(cfg, args) ==
    LET cmd == IF Len(args.positional) >= 1 THEN args.positional[1] ELSE Undefined
    IN IF Truthy(cmd)
       THEN IF Render(cmd) \in DOMAIN HELP_DETAILS
            THEN Printed(cfg, <<HELP_DETAILS[Render(cmd)]>>)
            ELSE IF Render(cmd) \in ObjectPrototypeKeys
            THEN Printed(cfg, << <<"[inherited ", Render(cmd), "]">> >>)
            ELSE Threw(cfg, NoClient,
                       << <<"'", Render(cmd),
                            "' is not an alpaca command. See 'alpaca help'">> >>)
       ELSE Printed(cfg, << <<HELP>> >>)

----------------------------------------------------------------------------
(* The command table and dispatch *)

Entry(options, hasSchema, schema, fn) ==
    [options |-> options, hasSchema |-> hasSchema, schema |-> schema, fn |-> fn]

cli ==
    [configure |-> Entry(configureOptions, TRUE, configureSchema, "configure"),
     buy |-> Entry(orderOptions, TRUE, orderSchema, "buy"),
     sell |-> Entry(orderOptions, TRUE, orderSchema, "sell"),
     report |-> Entry(NoOptions, FALSE, NoSchema, "report"),
     help |-> Entry(NoOptions, FALSE, NoSchema, "help")]

\* cli[command] || cli.configure
cliLookup_FallbackConfigure(cmd) ==
    IF cmd \in DOMAIN cli THEN cli[cmd]
    ELSE IF cmd \in ObjectPrototypeKeys
    THEN Entry(NoOptions, FALSE, NoSchema, "undefined")
    ELSE cli.configure

\* cli[command] || cli.help.  A name that Object.prototype defines reads an
\* inherited, truthy value that has no options, no schema and no fn.
cliLookup(cmd) ==
    IF cmd \in DOMAIN cli THEN cli[cmd]
    ELSE IF cmd \in ObjectPrototypeKeys
    THEN Entry(NoOptions, FALSE, NoSchema, "undefined")
    ELSE cli.help

\* the dispatch without the assertSchema call
validationThrows_Skipped(action, args) == FALSE

\* whether assertSchema throws before the handler is called
validationThrows(action, args) ==
    action.hasSchema /\ assertSchema(args, action.schema) # <<>>

\* action.fn(parsedArgs) up to its first await
callHandler(fn, cfg, args) ==
    CASE fn = "configure" -> configure(cfg, args)
      [] fn = "buy" -> orderStart("buy", BUY_USAGE, cfg, args)
      [] fn = "sell" -> orderStart("sell", SELL_USAGE, cfg, args)
      [] fn = "report" -> reportStart(cfg)
      [] fn = "help" -> help(cfg, args)
      [] OTHER -> Threw(cfg, NoClient, << <<"action.fn is not a function">> >>)

----------------------------------------------------------------------------
(* Inputs *)

\* sequences over S of length at most n
SeqsUpTo(S, n) == UNION {[1..k -> S] : k \in 0..n}

\* the ways to give some of the flags of choices, each with one of its tokens
FlagSets(choices) ==
    UNION { {f \in [D -> UNION {choices[k] : k \in DOMAIN choices}] :
                \A k \in D : f[k] \in choices[k]} : D \in SUBSET DOMAIN choices }

AAPL == <<"A", "A", "P", "L">>

\* <<>> is the empty argument (buy "")
OrderTokens == {<<>>, <<"0">>, <<"5">>, AAPL}

HelpTokens ==
    {<<"0">>, <<"b", "u", "y">>, <<"z">>,
     <<"v", "a", "l", "u", "e", "O", "f">>}

OrderFlags ==
    FlagSets([k \in {"type", "time-in-force", "limit-price", "id"} |->
        CASE k = "type" ->
               {<<"l", "i", "m", "i", "t">>, <<"s", "t", "o", "p">>,
                <<"s", "t", "o", "p", "_", "l", "i", "m", "i", "t">>,
                <<"b", "o", "g", "u", "s">>}
          [] k = "time-in-force" -> {<<"d", "a", "y">>, <<"b", "o", "g", "u", "s">>}
          [] k = "limit-price" -> {<<"1", "5", "0">>, <<"A">>}
          [] k = "id" -> {<<"K", "1">>}])

ConfigureFlags ==
    FlagSets([k \in {"id", "secret", "mode", "base-url"} |->
        CASE k = "id" -> {<<>>, <<"K", "1">>, <<"K", "2">>}
          [] k = "secret" -> {<<"S", "1">>}
          [] k = "mode" -> {<<"p", "a", "p", "e", "r">>, <<"b", "o", "g", "u", "s">>}
          [] k = "base-url" -> {<<"u">>}])

NoFlags == [k \in {} |-> <<>>]

\* "undefined" is the property name an absent first argument reads
Commands ==
    {"configure", "buy", "sell", "report", "help", "undefined", "foo",
     "constructor"}

Argvs(cmd) ==
    CASE cmd = "configure" -> [positional : {<<>>}, flags : ConfigureFlags]
      [] cmd \in {"buy", "sell"} ->
           [positional : SeqsUpTo(OrderTokens, MaxPositional), flags : OrderFlags]
      [] OTHER -> [positional : SeqsUpTo(HelpTokens, 1),
                   flags : {NoFlags, [k \in {"id"} |-> <<"K", "1">>]}]

Order(id) == [id |-> id]
NoOrder == Order("")

\* createOrder resolves to an order or rejects
CreateOrderReplies ==
    {[ok |-> TRUE, order |-> Order("o-1")], [ok |-> FALSE, order |-> NoOrder]}

\* getBars rejects, or resolves to a mapping that lacks the symbol, or to
\* the symbol's bars
GetBarsReplies ==
    {[ok |-> FALSE, hasSymbol |-> FALSE, bars |-> <<>>],
     [ok |-> TRUE, hasSymbol |-> FALSE, bars |-> <<>>],
     [ok |-> TRUE, hasSymbol |-> TRUE, bars |-> <<>>],
     [ok |-> TRUE, hasSymbol |-> TRUE, bars |-> <<[c |-> 150]>>]}

\* amounts stand for the numeric strings the brokerage sends
Positions ==
    {[symbol |-> "AAPL", qty |-> 10, cost_basis |-> 1000,
      market_value |-> 1100, unrealized_pl |-> 100],
     [symbol |-> "MSFT", qty |-> 2, cost_basis |-> 500,
      market_value |-> 300, unrealized_pl |-> -200]}

GetPositionsReplies ==
    {[ok |-> FALSE, positions |-> <<>>]}
      \cup [ok : {TRUE}, positions : SeqsUpTo(Positions, MaxPositions)]

----------------------------------------------------------------------------
(* What the handlers print after their awaits *)

RemoteFailure(op) == << <<op, " failed">> >>

TypeErrorMessage == << <<"Cannot read property of undefined">> >>

\* the market price fetched whatever the order type
needsMarketPrice_Always(type) == TRUE

\* the last arm of the priceText conditional awaits getMarketPrice()
needsMarketPrice(type) == type \notin {"stop_limit", "limit", "stop"}

priceText(params, marketPrice) ==
    CASE params.type.str = "stop_limit" ->
           <<"between $", Render(params.stop_price), " and $",
             Render(params.limit_price)>>
      [] params.type.str = "limit" -> <<"at $", Render(params.limit_price)>>
      [] params.type.str = "stop" -> <<"at $", Render(params.stop_price)>>
      [] OTHER -> <<"at $", ToString(marketPrice)>>

\* the console.log of order
confirmation(params, marketPrice, placed) ==
    << <<"Placed a ", params.type.str, " order to ", params.side, " ",
         Render(params.qty), " share",
         IF params.qty.type = "number" /\ params.qty.num > 1 THEN "s" ELSE "",
         " of ", Render(params.symbol), " ">>
         \o priceText(params, marketPrice) \o <<".">>,
       <<"order id:  ", placed.id>> >>

usd(n) == IF n < 0 THEN "-$" \o ToString(-n) \o ".00"
          ELSE "$" \o ToString(n) \o ".00"

RECURSIVE Performance(_)
Performance(positions) ==
    IF positions = <<>> THEN 0
    ELSE Head(positions).unrealized_pl + Performance(Tail(positions))

\* the console.log of report
positionSummary(positions) ==
    <<  <<"Portfolio:">>,
        <<"symbol", "qty", "cost", "value", "profit">> >>
    \o [i \in 1..Len(positions) |->
          <<positions[i].symbol, ToString(positions[i].qty),
            usd(positions[i].cost_basis), usd(positions[i].market_value),
            usd(positions[i].unrealized_pl)>>]
    \o << <<"Performance:">>,
          <<IF Performance(positions) > 0 THEN "+" ELSE "",
            usd(Performance(positions))>> >>

----------------------------------------------------------------------------
(* The state machine *)

NoArgv == [positional |-> <<>>, flags |-> NoFlags]

NoArgs == [positional |-> <<>>, named |-> NoDefaults]

NoConfig == [k \in ConfigKeys |-> Undefined]

Init ==
    /\ config = NoConfig
    /\ pc = "idle"
    /\ command = "undefined"
    /\ argv = NoArgv
    /\ parsedArgs = NoArgs
    /\ invoked = "none"
    /\ alpaca = NoClient
    /\ calls = <<>>
    /\ order = NoOrder
    /\ stdout = <<>>
    /\ stderr = <<>>

\* the body of the top-level async function up to the handler's first await
MainRun(cmd, tokens) ==
    LET action == cliLookup(cmd)
        args == parseArgs(tokens, action.options)
    IN /\ command' = cmd
       /\ argv' = tokens
       /\ parsedArgs' = args
       /\ order' = NoOrder
       /\ IF validationThrows(action, args)
          THEN /\ invoked' = "none"
               /\ config' = config
               /\ pc' = "done"
               /\ alpaca' = NoClient
               /\ calls' = <<>>
               /\ stdout' = <<>>
               /\ stderr' = <<assertSchema(args, action.schema)>>
          ELSE LET next == callHandler(action.fn, config, args)
               IN /\ invoked' = action.fn
                  /\ config' = next.config
                  /\ pc' = next.pc
                  /\ alpaca' = next.alpaca
                  /\ calls' = next.calls
                  /\ stdout' = next.stdout
                  /\ stderr' = next.stderr

Main ==
    /\ pc = "idle"
    /\ \E cmd \in Commands : \E tokens \in Argvs(cmd) : MainRun(cmd, tokens)

\* await alpaca.createOrder(...) settles
CreateOrderReturns ==
    /\ pc = "createOrder"
    /\ \E reply \in CreateOrderReplies :
         LET params == calls[1].params
         IN IF ~reply.ok
            THEN /\ stderr' = <<RemoteFailure("createOrder")>>
                 /\ pc' = "done"
                 /\ UNCHANGED <<order, calls, stdout>>
            ELSE /\ order' = reply.order
                 /\ IF needsMarketPrice(params.type.str)
                    THEN /\ calls' = Append(calls,
                              [op |-> "getBars",
                               params |-> <<"minute", params.symbol, 1>>])
                         /\ pc' = "getBars"
                         /\ UNCHANGED <<stdout, stderr>>
                    ELSE /\ stdout' = <<confirmation(params, 0, reply.order)>>
                         /\ pc' = "done"
                         /\ UNCHANGED <<calls, stderr>>
    /\ UNCHANGED <<config, command, argv, parsedArgs, invoked, alpaca>>

\* await alpaca.getBars(...) settles
GetBarsReturns ==
    /\ pc = "getBars"
    /\ \E reply \in GetBarsReplies :
         IF ~reply.ok
         THEN /\ stderr' = <<RemoteFailure("getBars")>>
              /\ stdout' = stdout
         ELSE IF ~reply.hasSymbol \/ reply.bars = <<>>
         THEN /\ stderr' = <<TypeErrorMessage>>
              /\ stdout' = stdout
         ELSE /\ stdout' = <<confirmation(calls[1].params, reply.bars[1].c, order)>>
              /\ stderr' = stderr
    /\ pc' = "done"
    /\ UNCHANGED <<config, command, argv, parsedArgs, invoked, alpaca, calls, order>>

\* await alpaca.getPositions() settles
GetPositionsReturns ==
    /\ pc = "getPositions"
    /\ \E reply \in GetPositionsReplies :
         IF ~reply.ok
         THEN /\ stderr' = <<RemoteFailure("getPositions")>>
              /\ stdout' = stdout
         ELSE /\ stdout' = <<positionSummary(reply.positions)>>
              /\ stderr' = stderr
    /\ pc' = "done"
    /\ UNCHANGED <<config, command, argv, parsedArgs, invoked, alpaca, calls, order>>

\* the process ends; only the configuration store outlives it
Exit ==
    /\ pc = "done"
    /\ pc' = "idle"
    /\ command' = "undefined"
    /\ argv' = NoArgv
    /\ parsedArgs' = NoArgs
    /\ invoked' = "none"
    /\ alpaca' = NoClient
    /\ calls' = <<>>
    /\ order' = NoOrder
    /\ stdout' = <<>>
    /\ stderr' = <<>>
    /\ config' = config

Next ==
    \/ Main
    \/ CreateOrderReturns
    \/ GetBarsReturns
    \/ GetPositionsReturns
    \/ Exit

Spec == Init /\ [][Next]_vars

----------------------------------------------------------------------------
(* Vocabulary of the properties *)

SchemaCommands == {"configure", "buy", "sell"}

OrderCommands == {"buy", "sell"}

UsageOf(cmd) == IF cmd = "buy" THEN BUY_USAGE ELSE SELL_USAGE

CredentialsPresent == Truthy(config.keyId) /\ Truthy(config.secretKey)

\* the keys of args that break the schema of cmd
Violations(cmd, args) ==
    LET schema == cli[cmd].schema
        known == {schema[i].key : i \in 1..Len(schema)}
    IN {schema[i].key : i \in {j \in 1..Len(schema) :
                                  RuleError(schema[j], args.named) # ""}}
         \cup {k \in DOMAIN args.named : k \notin known}

\* some part of some line of message is text
Contains(message, text) ==
    \E i \in 1..Len(message) : \E j \in 1..Len(message[i]) : message[i][j] = text

\* message has line after line of the form "<key>" <reason>, for these keys
IsValidationMessage(message, keys) ==
    /\ message # <<>>
    /\ \A i \in 1..Len(message) :
         /\ Len(message[i]) = 4
         /\ message[i][1] = "\""
         /\ message[i][2] \in keys

OpCount(op) == Cardinality({i \in 1..Len(calls) : calls[i].op = op})

\* createOrder was called with this quantity and symbol
Submitted(qty, symbol) ==
    /\ calls # <<>>
    /\ calls[1].op = "createOrder"
    /\ calls[1].params.qty = qty
    /\ calls[1].params.symbol = symbol

\* the token parses to '' or to the number 0
Falsy(tok) == tok = <<>> \/ (isNumber(tok) /\ Number(tok) = 0)

----------------------------------------------------------------------------
(* C1 *)

\* C1: when the parsed arguments of configure, buy or sell break the
\* command's schema, the run ends in that step: no handler is called, the
\* configuration is not written, no brokerage operation is called, nothing
\* is printed, and the one error is the aggregated validation message.
C1_ValidationAborts ==
    [][ (pc = "idle" /\ command' \in SchemaCommands
           /\ Violations(command', parsedArgs') # {})
        => /\ pc' = "done"
           /\ invoked' = "none"
           /\ config' = config
           /\ calls' = <<>>
           /\ stdout' = <<>>
           /\ Len(stderr') = 1
           /\ IsValidationMessage(stderr'[1],
                                   Violations(command', parsedArgs')) ]_vars

\* a configure run that gave a usable --id and broke the rule of --mode
C1_Witness ==
    /\ pc = "done"
    /\ command = "configure"
    /\ Truthy(Get(parsedArgs.named, "id"))
    /\ "mode" \in Violations("configure", parsedArgs)
    /\ config.keyId = Undefined

----------------------------------------------------------------------------
(* C2 *)

\* C2 as stated: in a buy or sell run that reaches the positional
\* resolution, one non-numeric token is submitted as the symbol with
\* quantity 1, and any two tokens are submitted as quantity and symbol.
C2_AnyPair ==
    (invoked \in OrderCommands /\ CredentialsPresent)
    => LET pos == argv.positional
       IN /\ (Len(pos) = 1 /\ ~isNumber(pos[1]))
               => Submitted(Num(1), Str(Text(pos[1])))
          /\ Len(pos) = 2 => Submitted(Coerce(pos[1]), Coerce(pos[2]))

\* C2: in a buy or sell run that reaches the positional resolution, one
\* non-numeric token is submitted as the symbol with quantity 1, and two
\* tokens of which neither is empty or a number equal to zero are submitted
\* as quantity (a number when numeric-looking) and symbol.
C2_Resolution ==
    (invoked \in OrderCommands /\ CredentialsPresent)
    => LET pos == argv.positional
       IN /\ (Len(pos) = 1 /\ ~isNumber(pos[1]))
               => Submitted(Num(1), Str(Text(pos[1])))
          /\ (Len(pos) = 2 /\ ~Falsy(pos[1]) /\ ~Falsy(pos[2]))
               => Submitted(Coerce(pos[1]), Coerce(pos[2]))

\* an order of 5 shares of AAPL has been submitted
C2_Witness ==
    /\ invoked = "buy"
    /\ argv.positional = <<<<"5">>, AAPL>>
    /\ Submitted(Num(5), Str("AAPL"))

----------------------------------------------------------------------------
(* C3 *)

NoSymbolGiven ==
    \/ Len(argv.positional) = 0
    \/ Len(argv.positional) = 1 /\ isNumber(argv.positional[1])

\* C3 as stated: a buy or sell run with no positional token, or with one
\* numeric token, submits no order and ends in the usage error.
C3_AlwaysUsage ==
    (command \in OrderCommands /\ NoSymbolGiven)
    => /\ OpCount("createOrder") = 0
       /\ pc = "done" => /\ stderr # <<>>
                         /\ Contains(stderr[1], UsageOf(command))

\* C3: a buy or sell run with no positional token, or with one numeric
\* token, submits no order; when its arguments pass validation and both
\* credentials are configured it ends in the usage error, whose message
\* holds the usage string of the command.
C3_UsageError ==
    (command \in OrderCommands /\ NoSymbolGiven)
    => /\ calls = <<>>
       /\ (invoked = command /\ CredentialsPresent)
            => /\ pc = "done"
               /\ stdout = <<>>
               /\ Len(stderr) = 1
               /\ Contains(stderr[1], UsageOf(command))

\* sell 5 with credentials configured
C3_Witness ==
    /\ command = "sell"
    /\ invoked = "sell"
    /\ CredentialsPresent
    /\ argv.positional = <<<<"5">>>>
    /\ stderr = <<UsageMessage(SELL_USAGE)>>

----------------------------------------------------------------------------
(* C4 *)

\* C4: a first argument that is none of configure, buy, sell, report, help
\* (or is absent) has the help handler called.
C4_FallbackToHelp ==
    (pc # "idle" /\ command \notin DOMAIN cli) => invoked = "help"

----------------------------------------------------------------------------
(* C5 *)

\* C5 as stated: a buy, sell or report run made while a credential is
\* absent fails with the configuration-missing message and calls no
\* brokerage operation.
C5_AlwaysConfigMissing ==
    (pc # "idle" /\ command \in {"buy", "sell", "report"} /\ ~CredentialsPresent)
    => /\ stderr = <<ConfigMissingMessage>>
       /\ calls = <<>>

\* C5: a buy, sell or report run made while a credential is absent calls no
\* brokerage operation and ends at once; when its handler is called (its
\* arguments passed validation) the error is the configuration-missing
\* message.
C5_ConfigMissing ==
    (pc # "idle" /\ command \in {"buy", "sell", "report"} /\ ~CredentialsPresent)
    => /\ calls = <<>>
       /\ pc = "done"
       /\ stdout = <<>>
       /\ invoked = command => stderr = <<ConfigMissingMessage>>

\* a valid buy of AAPL with keyId stored and secretKey absent
C5_Witness ==
    /\ command = "buy"
    /\ invoked = "buy"
    /\ argv.positional = <<AAPL>>
    /\ Truthy(config.keyId)
    /\ ~Truthy(config.secretKey)
    /\ stderr = <<ConfigMissingMessage>>

----------------------------------------------------------------------------
(* C6 *)

\* C6: no step of a run whose command is not configure changes a key of
\* the configuration.
C6_OnlyConfigureWrites ==
    [][ command' # "configure" => config' = config ]_vars

\* a buy run given --id=K1 has ended and the stored keyId is still K2
C6_Witness ==
    /\ pc = "done"
    /\ command = "buy"
    /\ "id" \in DOMAIN argv.flags
    /\ config.keyId = Str("K2")

----------------------------------------------------------------------------
(* C7 *)

BothGiven(tokens) == {"id", "secret"} \subseteq DOMAIN tokens.flags

FlagOf(key) ==
    CASE key = "keyId" -> "id"
      [] key = "secretKey" -> "secret"
      [] key = "mode" -> "mode"
      [] key = "baseUrl" -> "base-url"

\* C7 as stated: a configure run given both --id and --secret stores them.
C7_AlwaysStored ==
    [][ (pc = "idle" /\ command' = "configure" /\ BothGiven(argv'))
        => /\ config'.keyId = Str(Text(argv'.flags["id"]))
           /\ config'.secretKey = Str(Text(argv'.flags["secret"])) ]_vars

\* C7: a configure run given both --id=X and --secret=Y whose arguments
\* pass validation stores keyId = X and secretKey = Y and leaves the keys
\* whose option was not given as they were; once both credentials are
\* stored no step removes one; and a buy, sell or report handler called
\* with both stored builds its client from the stored credentials and
\* does not fail with configuration-missing.
C7_Persisted ==
    /\ [][ /\ (pc = "idle" /\ command' = "configure" /\ BothGiven(argv')
                 /\ Violations("configure", parsedArgs') = {})
              => /\ config'.keyId = Str(Text(argv'.flags["id"]))
                 /\ config'.secretKey = Str(Text(argv'.flags["secret"]))
                 /\ \A key \in ConfigKeys :
                      FlagOf(key) \notin DOMAIN argv'.flags
                        => config'[key] = config[key]
           /\ CredentialsPresent => CredentialsPresent' ]_vars
    /\ [](  (invoked \in {"buy", "sell", "report"} /\ CredentialsPresent)
            => /\ stderr # <<ConfigMissingMessage>>
               /\ alpaca.keyId = config.keyId
               /\ alpaca.secretKey = config.secretKey )

\* a report run reads back K2 and S1 and has called getPositions
C7_Witness ==
    /\ invoked = "report"
    /\ alpaca.keyId = Str("K2")
    /\ alpaca.secretKey = Str("S1")
    /\ OpCount("getPositions") = 1

----------------------------------------------------------------------------
(* C8 *)

\* C8: when the arguments of configure, buy or sell break several rules at
\* once, the error message has exactly one line for each offending key, and
\* that line names the key.
C8_AllViolationsReported ==
    (pc = "done" /\ command \in SchemaCommands
       /\ Violations(command, parsedArgs) # {})
    => /\ Len(stderr) = 1
       /\ Len(stderr[1]) = Cardinality(Violations(command, parsedArgs))
       /\ \A key \in Violations(command, parsedArgs) :
            \E i \in 1..Len(stderr[1]) : stderr[1][i][2] = key

\* buy AAPL --type=bogus --time-in-force=bogus: two lines
C8_Witness ==
    /\ pc = "done"
    /\ command = "buy"
    /\ Violations("buy", parsedArgs) = {"type", "time-in-force"}
    /\ Len(stderr[1]) = 2

----------------------------------------------------------------------------
(* C9 *)

\* C9: a buy or sell run in which createOrder resolved prints a
\* confirmation that holds the identifier of the returned order.
C9_ConfirmationPrinted ==
    (pc = "done" /\ invoked \in OrderCommands /\ order # NoOrder)
    => /\ stdout # <<>>
       /\ Contains(stdout[1], order.id)

----------------------------------------------------------------------------
(* C10 *)

\* C10: in a buy or sell run createOrder is called at most once and getBars
\* at most once; getBars is called only for the type market and only after
\* createOrder resolved; for limit, stop and stop_limit it is never called.
C10_CallOrdering ==
    command \in OrderCommands
    => /\ OpCount("createOrder") <= 1
       /\ OpCount("getBars") <= 1
       /\ OpCount("getPositions") = 0
       /\ \A i \in 1..Len(calls) :
            calls[i].op = "getBars"
              => /\ i = 2
                 /\ calls[1].op = "createOrder"
                 /\ order # NoOrder
                 /\ parsedArgs.named["type"] = Str("market")
       /\ Get(parsedArgs.named, "type").str \in {"limit", "stop", "stop_limit"}
            => OpCount("getBars") = 0

\* a market order was placed, then its price looked up, and the run ended
\* with the confirmation
C10_Witness ==
    /\ pc = "done"
    /\ command = "buy"
    /\ Len(calls) = 2
    /\ calls[2].op = "getBars"
    /\ stdout # <<>>

====
